---- MODULE Spec2Model ----
(***************************************************************************)
(* Verhoeff checksum library (package verhoeff, verhoeff.go).              *)
(*                                                                         *)
(* The library is a set of pure functions over three read-only tables.     *)
(* Each function of verhoeff.go is an operator with the same name,         *)
(* computed the way the Go code computes it.  The state machine is one     *)
(* call of one public function: Init draws the argument, one action per    *)
(* public function applies it and records what it returns.                 *)
(*                                                                         *)
(* Representation                                                          *)
(*   string   a sequence of Unicode code points ('0' is 48); len(s) of Go  *)
(*            is the number of UTF-8 bytes, ByteLen(s)                      *)
(*   []int    a sequence of integers (Go index i is TLA+ index i+1)        *)
(*   int      an integer in MinInt..MaxInt, two's complement of IntBits    *)
(*   error    a string, NoErr for nil                                      *)
(*   (v, err) the record [val |-> v, err |-> e]                            *)
(*                                                                         *)
(* A second state machine, SpecConc, runs the string functions in several  *)
(* goroutines at once, one loop iteration at a time: frame holds the       *)
(* locals of each goroutine's call, heap the backing arrays of the slices  *)
(* the calls make, memo one earlier call and what it returned.             *)
(*                                                                         *)
(* A third state machine, SpecMem, calls the functions with the tables and *)
(* the caller's []int in memory: there heap maps every allocated location  *)
(* to its array and a function is computed with the writes it makes.       *)
(*                                                                         *)
(* A fourth state machine, SpecTables, looks entries of the tables up for  *)
(* three elements a, b, c of 0..9.                                         *)
(***************************************************************************)
EXTENDS Integers, Sequences, FiniteSets, TLC

VARIABLES input, op, ret, frame, heap, memo

vars == <<input, op, ret, frame, heap, memo>>

(***************************************************************************)
(* Bounds of the model.                                                    *)
(***************************************************************************)
\* longest run of free characters in a string argument, and longest []int
MaxFree == 2
\* longest fixed digit run put before or after the free characters
MaxPad == 10
\* width of the machine integer (Go: 64), scaled to what TLC can compute
IntBits == 11
\* goroutines calling the package at the same time (stress test: 10)
NumGoroutines == 2

(***************************************************************************)
(* Lookup tables, verhoeff.go:18-47.                                       *)
(***************************************************************************)
\* mutant of d: one entry mistyped (row 1, column 2 holds 4 for 3)
d_mistyped ==
     << <<0, 1, 2, 3, 4, 5, 6, 7, 8, 9>>,
        <<1, 2, 4, 4, 0, 6, 7, 8, 9, 5>>,
        <<2, 3, 4, 0, 1, 7, 8, 9, 5, 6>>,
        <<3, 4, 0, 1, 2, 8, 9, 5, 6, 7>>,
        <<4, 0, 1, 2, 3, 9, 5, 6, 7, 8>>,
        <<5, 9, 8, 7, 6, 0, 4, 3, 2, 1>>,
        <<6, 5, 9, 8, 7, 1, 0, 4, 3, 2>>,
        <<7, 6, 5, 9, 8, 2, 1, 0, 4, 3>>,
        <<8, 7, 6, 5, 9, 3, 2, 1, 0, 4>>,
        <<9, 8, 7, 6, 5, 4, 3, 2, 1, 0>> >>

\* mutant of d: the last two entries of row 5 exchanged (the row is still a
\* permutation)
d_entriesExchanged ==
     << <<0, 1, 2, 3, 4, 5, 6, 7, 8, 9>>,
        <<1, 2, 3, 4, 0, 6, 7, 8, 9, 5>>,
        <<2, 3, 4, 0, 1, 7, 8, 9, 5, 6>>,
        <<3, 4, 0, 1, 2, 8, 9, 5, 6, 7>>,
        <<4, 0, 1, 2, 3, 9, 5, 6, 7, 8>>,
        <<5, 9, 8, 7, 6, 0, 4, 3, 1, 2>>,
        <<6, 5, 9, 8, 7, 1, 0, 4, 3, 2>>,
        <<7, 6, 5, 9, 8, 2, 1, 0, 4, 3>>,
        <<8, 7, 6, 5, 9, 3, 2, 1, 0, 4>>,
        <<9, 8, 7, 6, 5, 4, 3, 2, 1, 0>> >>

d == << <<0, 1, 2, 3, 4, 5, 6, 7, 8, 9>>,
        <<1, 2, 3, 4, 0, 6, 7, 8, 9, 5>>,
        <<2, 3, 4, 0, 1, 7, 8, 9, 5, 6>>,
        <<3, 4, 0, 1, 2, 8, 9, 5, 6, 7>>,
        <<4, 0, 1, 2, 3, 9, 5, 6, 7, 8>>,
        <<5, 9, 8, 7, 6, 0, 4, 3, 2, 1>>,
        <<6, 5, 9, 8, 7, 1, 0, 4, 3, 2>>,
        <<7, 6, 5, 9, 8, 2, 1, 0, 4, 3>>,
        <<8, 7, 6, 5, 9, 3, 2, 1, 0, 4>>,
        <<9, 8, 7, 6, 5, 4, 3, 2, 1, 0>> >>

\* mutant of p: the last two entries of the last row exchanged
p_lastRowMistyped ==
     << <<0, 1, 2, 3, 4, 5, 6, 7, 8, 9>>,
        <<1, 5, 7, 6, 2, 8, 3, 0, 9, 4>>,
        <<5, 8, 0, 3, 7, 9, 6, 1, 4, 2>>,
        <<8, 9, 1, 6, 0, 4, 3, 5, 2, 7>>,
        <<9, 4, 5, 3, 1, 2, 6, 8, 7, 0>>,
        <<4, 2, 8, 6, 5, 7, 3, 9, 0, 1>>,
        <<2, 7, 9, 3, 8, 0, 6, 4, 1, 5>>,
        <<7, 0, 4, 6, 9, 1, 3, 2, 8, 5>> >>

\* mutant of p: rows 2 and 3 exchanged (every row is still a permutation)
p_rowsExchanged ==
     << <<0, 1, 2, 3, 4, 5, 6, 7, 8, 9>>,
        <<1, 5, 7, 6, 2, 8, 3, 0, 9, 4>>,
        <<8, 9, 1, 6, 0, 4, 3, 5, 2, 7>>,
        <<5, 8, 0, 3, 7, 9, 6, 1, 4, 2>>,
        <<9, 4, 5, 3, 1, 2, 6, 8, 7, 0>>,
        <<4, 2, 8, 6, 5, 7, 3, 9, 0, 1>>,
        <<2, 7, 9, 3, 8, 0, 6, 4, 1, 5>>,
        <<7, 0, 4, 6, 9, 1, 3, 2, 5, 8>> >>

p == << <<0, 1, 2, 3, 4, 5, 6, 7, 8, 9>>,
        <<1, 5, 7, 6, 2, 8, 3, 0, 9, 4>>,
        <<5, 8, 0, 3, 7, 9, 6, 1, 4, 2>>,
        <<8, 9, 1, 6, 0, 4, 3, 5, 2, 7>>,
        <<9, 4, 5, 3, 1, 2, 6, 8, 7, 0>>,
        <<4, 2, 8, 6, 5, 7, 3, 9, 0, 1>>,
        <<2, 7, 9, 3, 8, 0, 6, 4, 1, 5>>,
        <<7, 0, 4, 6, 9, 1, 3, 2, 5, 8>> >>

\* a table that takes every element for its own inverse (true only of the
\* reflections and of 0)
inv_selfInverse == <<0, 1, 2, 3, 4, 5, 6, 7, 8, 9>>

inv == <<0, 4, 3, 2, 1, 5, 6, 7, 8, 9>>

\* Go's 0-based d[a][b], p[r][x], inv[c]
dAt(a, b) == d[a + 1][b + 1]

pAt(r, x) == p[r + 1][x + 1]

invAt(c) == inv[c + 1]

(***************************************************************************)
(* Errors and return values.                                               *)
(***************************************************************************)
NoErr == "nil"

ErrNonDigit == "input contains non-digit characters"

ErrInvalidDigit == "input contains invalid digit"

ErrEmpty == "empty input"

ErrAadhaarLength == "aadhaar numbers should be 12 digits in length"

ErrAadhaarDigits == "aadhaar numbers must contain only numbers"

ErrUnsupported == "unsupported input type"

Pair(v, e) == [val |-> v, err |-> e]

\* a []int result: nil, or a slice with elements
NilSlice == [nil |-> TRUE, elems |-> <<>>]

Slice(s) == [nil |-> FALSE, elems |-> s]

(***************************************************************************)
(* Characters and strings.                                                 *)
(***************************************************************************)
AsciiDigits == 48 .. 57

\* unicode.IsDigit: the decimal-digit (Nd) ranges of the characters modelled:
\* ASCII 0-9, Arabic-Indic U+0660-0669, Devanagari U+0966-096F
IsDigit(char) ==
    \/ char \in 48 .. 57
    \/ char \in 1632 .. 1641
    \/ char \in 2406 .. 2415

\* bytes of the UTF-8 encoding of one code point
RuneLen(char) ==
    IF char < 128 THEN 1
    ELSE IF char < 2048 THEN 2
    ELSE IF char < 65536 THEN 3
    ELSE 4

RECURSIVE ByteLen(_)
\* Go's len(s) for a string: its length in bytes
ByteLen(s) == IF s = <<>> THEN 0 ELSE RuneLen(Head(s)) + ByteLen(Tail(s))

\* strconv.Atoi(string(char)) with the error discarded: the value of an ASCII
\* digit, and 0 for every other one-character string (Atoi fails, returns 0)
AtoiChar(char) == IF char \in 48 .. 57 THEN char - 48 ELSE 0

RECURSIVE ItoaNat(_)
ItoaNat(n) ==
    IF n < 10 THEN <<48 + n>>
    ELSE Append(ItoaNat(n \div 10), 48 + (n % 10))

\* strconv.Itoa / strconv.FormatInt(n, 10): signed decimal text, '-' is 45
Itoa(n) == IF n < 0 THEN <<45>> \o ItoaNat(0 - n) ELSE ItoaNat(n)

(***************************************************************************)
(* Machine integers.                                                       *)
(***************************************************************************)
RECURSIVE Pow2(_)
Pow2(k) == IF k = 0 THEN 1 ELSE 2 * Pow2(k - 1)

MaxInt == Pow2(IntBits - 1) - 1

MinInt == 0 - Pow2(IntBits - 1)

\* the two's complement value of x in IntBits bits
Wrap(x) == ((x + Pow2(IntBits - 1)) % Pow2(IntBits)) - Pow2(IntBits - 1)

\* Go's truncated division and remainder
GoDiv(a, b) == IF a >= 0 THEN a \div b ELSE 0 - ((0 - a) \div b)

GoMod(a, b) == a - b * GoDiv(a, b)

(***************************************************************************)
(* Digit extraction, verhoeff.go:49-140.                                   *)
(***************************************************************************)
RECURSIVE stringLoop_skipNonDigit(_, _)
\* mutant of stringLoop: a non-digit character is skipped, not reported
stringLoop_skipNonDigit(s, digits) ==
    IF s = <<>> THEN Pair(Slice(digits), NoErr)
    ELSE IF ~IsDigit(Head(s)) THEN stringLoop_skipNonDigit(Tail(s), digits)
    ELSE stringLoop_skipNonDigit(Tail(s), Append(digits, AtoiChar(Head(s))))

RECURSIVE stringLoop(_, _)
\* the range loop of stringToDigits over the characters not yet read
stringLoop(s, digits) ==
    IF s = <<>> THEN Pair(Slice(digits), NoErr)
    ELSE IF ~IsDigit(Head(s)) THEN Pair(NilSlice, ErrNonDigit)
    ELSE stringLoop(Tail(s), Append(digits, AtoiChar(Head(s))))

\* mutant of stringToDigits: the empty string is rejected
stringToDigits_rejectEmpty(s) ==
    IF s = <<>> THEN Pair(NilSlice, ErrEmpty)
    ELSE stringLoop(s, <<>>)

stringToDigits(s) ==
    IF s = <<>> THEN Pair(Slice(<<>>), NoErr)
    ELSE stringLoop(s, <<>>)

RECURSIVE countDigits_offByOne(_, _)
\* mutant of countDigits: the loop runs while temp > 9, one digit short
countDigits_offByOne(temp, count) ==
    IF temp > 9 THEN countDigits_offByOne(GoDiv(temp, 10), count + 1) ELSE count

RECURSIVE countDigits(_, _)
\* for temp > 0 { count++; temp /= 10 }
countDigits(temp, count) ==
    IF temp > 0 THEN countDigits(GoDiv(temp, 10), count + 1) ELSE count

RECURSIVE extractDigits_noDivide(_, _, _)
\* mutant of extractDigits: n /= 10 is missing, every place gets the last digit
extractDigits_noDivide(n, i, digits) ==
    IF i >= 0
    THEN extractDigits_noDivide(n, i - 1, [digits EXCEPT ![i + 1] = GoMod(n, 10)])
    ELSE digits

RECURSIVE extractDigits(_, _, _)
\* for i := count - 1; i >= 0; i-- { digits[i] = n % 10; n /= 10 }
extractDigits(n, i, digits) ==
    IF i >= 0
    THEN extractDigits(GoDiv(n, 10), i - 1, [digits EXCEPT ![i + 1] = GoMod(n, 10)])
    ELSE digits

\* mutant of intToDigits: the digits are left least-significant first
intToDigits_lsbFirst(n) ==
    IF n = 0 THEN <<0>>
    ELSE LET m == IF n < 0 THEN Wrap(0 - n) ELSE n
             count == countDigits(m, 0)
             msbFirst == extractDigits(m, count - 1, [i \in 1 .. count |-> 0])
         IN  [i \in 1 .. count |-> msbFirst[count + 1 - i]]

intToDigits(n) ==
    IF n = 0 THEN <<0>>
    ELSE LET m == IF n < 0 THEN Wrap(0 - n) ELSE n
             count == countDigits(m, 0)
         IN  extractDigits(m, count - 1, [i \in 1 .. count |-> 0])

int64ToDigits(n) ==
    IF n = 0 THEN <<0>>
    ELSE LET m == IF n < 0 THEN Wrap(0 - n) ELSE n
             count == countDigits(m, 0)
         IN  extractDigits(m, count - 1, [i \in 1 .. count |-> 0])

RECURSIVE sliceLoop_skipInvalid(_, _, _)
\* mutant of sliceLoop: an element out of range is passed over (its place
\* keeps the zero of make), not reported
sliceLoop_skipInvalid(slice, i, result) ==
    IF i = Len(slice) THEN Pair(Slice(result), NoErr)
    ELSE IF slice[i + 1] < 0 \/ slice[i + 1] > 9
         THEN sliceLoop_skipInvalid(slice, i + 1, result)
    ELSE sliceLoop_skipInvalid(slice, i + 1, [result EXCEPT ![i + 1] = slice[i + 1]])

RECURSIVE sliceLoop_upperOnly(_, _, _)
\* mutant of sliceLoop: only digit > 9 is tested, a negative element passes
sliceLoop_upperOnly(slice, i, result) ==
    IF i = Len(slice) THEN Pair(Slice(result), NoErr)
    ELSE IF slice[i + 1] > 9 THEN Pair(NilSlice, ErrInvalidDigit)
    ELSE sliceLoop_upperOnly(slice, i + 1, [result EXCEPT ![i + 1] = slice[i + 1]])

RECURSIVE sliceLoop(_, _, _)
\* the range loop of sliceToDigits from index i (0-based) on
sliceLoop(slice, i, result) ==
    IF i = Len(slice) THEN Pair(Slice(result), NoErr)
    ELSE IF slice[i + 1] < 0 \/ slice[i + 1] > 9 THEN Pair(NilSlice, ErrInvalidDigit)
    ELSE sliceLoop(slice, i + 1, [result EXCEPT ![i + 1] = slice[i + 1]])

sliceToDigits(slice) == sliceLoop(slice, 0, [i \in 1 .. Len(slice) |-> 0])

RECURSIVE reverseLoop_stopsEarly(_, _, _)
\* mutant of reverseLoop: the loop ends at i < j - 1, the two middle elements
\* of an even length stay in place
reverseLoop_stopsEarly(digits, i, j) ==
    IF i < j - 1
    THEN reverseLoop_stopsEarly(
             [digits EXCEPT ![i + 1] = digits[j + 1], ![j + 1] = digits[i + 1]],
             i + 1, j - 1)
    ELSE digits

RECURSIVE reverseLoop(_, _, _)
\* for i, j := 0, len-1; i < j; i, j = i+1, j-1 { swap }
reverseLoop(digits, i, j) ==
    IF i < j
    THEN reverseLoop([digits EXCEPT ![i + 1] = digits[j + 1], ![j + 1] = digits[i + 1]],
                     i + 1, j - 1)
    ELSE digits

reverseDigits(digits) == reverseLoop(digits, 0, Len(digits) - 1)

(***************************************************************************)
(* Checksum kernel, verhoeff.go:142-174.                                   *)
(***************************************************************************)
RECURSIVE calculateLoop_noOffset(_, _, _)
\* mutant of calculateLoop: the permutation row is i%8, as in validation
calculateLoop_noOffset(reversed, i, c) ==
    IF i = Len(reversed) THEN c
    ELSE calculateLoop_noOffset(reversed, i + 1, dAt(c, pAt(i % 8, reversed[i + 1])))

RECURSIVE calculateLoop(_, _, _)
\* for i, digit := range reversed { c = d[c][p[(i+1)%8][digit]] }
calculateLoop(reversed, i, c) ==
    IF i = Len(reversed) THEN c
    ELSE calculateLoop(reversed, i + 1, dAt(c, pAt((i + 1) % 8, reversed[i + 1])))

\* mutant of calculateChecksum: the final state is returned, not its inverse
calculateChecksum_noInverse(digits) == calculateLoop(reverseDigits(digits), 0, 0)

calculateChecksum(digits) == invAt(calculateLoop(reverseDigits(digits), 0, 0))

RECURSIVE validateLoop(_, _, _)
\* for i, digit := range reversed { c = d[c][p[i%8][digit]] }
validateLoop(reversed, i, c) ==
    IF i = Len(reversed) THEN c
    ELSE validateLoop(reversed, i + 1, dAt(c, pAt(i % 8, reversed[i + 1])))

validateChecksum(digits) ==
    IF Len(digits) = 0 THEN FALSE
    ELSE validateLoop(reverseDigits(digits), 0, 0) = 0

(***************************************************************************)
(* Public functions, verhoeff.go:176-398.                                  *)
(***************************************************************************)
\* mutant of GenerateFromString: 0 stands in for the digit when parsing fails
GenerateFromString_zeroOnError(s) ==
    LET r == stringToDigits(s)
    IN  IF r.err # NoErr THEN Pair(0, r.err)
        ELSE Pair(calculateChecksum(r.val.elems), NoErr)

GenerateFromString(s) ==
    LET r == stringToDigits(s)
    IN  IF r.err # NoErr THEN Pair(-1, r.err)
        ELSE Pair(calculateChecksum(r.val.elems), NoErr)

GenerateInt(n) == calculateChecksum(intToDigits(n))

GenerateInt64(n) == calculateChecksum(int64ToDigits(n))

GenerateSlice(digits) ==
    LET r == sliceToDigits(digits)
    IN  IF r.err # NoErr THEN Pair(-1, r.err)
        ELSE Pair(calculateChecksum(r.val.elems), NoErr)

\* mutant of Generate: the type switch has no case for []int
Generate_noSliceCase(in) ==
    CASE in.kind = "string" -> GenerateFromString(in.v)
      [] in.kind = "int" -> Pair(GenerateInt(in.v), NoErr)
      [] in.kind = "int64" -> Pair(GenerateInt64(in.v), NoErr)
      [] OTHER -> Pair(-1, ErrUnsupported)

Generate(in) ==
    CASE in.kind = "string" -> GenerateFromString(in.v)
      [] in.kind = "int" -> Pair(GenerateInt(in.v), NoErr)
      [] in.kind = "int64" -> Pair(GenerateInt64(in.v), NoErr)
      [] in.kind = "slice" -> GenerateSlice(in.v)
      [] OTHER -> Pair(-1, ErrUnsupported)

\* mutant of ValidateString: no test for an empty digit sequence
ValidateString_noEmptyCheck(s) ==
    LET r == stringToDigits(s)
    IN  IF r.err # NoErr THEN Pair(FALSE, r.err)
        ELSE Pair(validateChecksum(r.val.elems), NoErr)

ValidateString(s) ==
    LET r == stringToDigits(s)
    IN  IF r.err # NoErr THEN Pair(FALSE, r.err)
        ELSE IF Len(r.val.elems) = 0 THEN Pair(FALSE, ErrEmpty)
        ELSE Pair(validateChecksum(r.val.elems), NoErr)

ValidateInt(n) == validateChecksum(intToDigits(n))

ValidateInt64(n) == validateChecksum(int64ToDigits(n))

ValidateSlice(digits) ==
    LET r == sliceToDigits(digits)
    IN  IF r.err # NoErr THEN Pair(FALSE, r.err)
        ELSE IF Len(r.val.elems) = 0 THEN Pair(FALSE, ErrEmpty)
        ELSE Pair(validateChecksum(r.val.elems), NoErr)

Validate(in) ==
    CASE in.kind = "string" -> ValidateString(in.v)
      [] in.kind = "int" -> Pair(ValidateInt(in.v), NoErr)
      [] in.kind = "int64" -> Pair(ValidateInt64(in.v), NoErr)
      [] in.kind = "slice" -> ValidateSlice(in.v)
      [] OTHER -> Pair(FALSE, ErrUnsupported)

\* mutant of ValidateAadhaar: the expected digit is computed over all 12 digits
ValidateAadhaar_wholeSlice(aadhaarStr) ==
    IF ByteLen(aadhaarStr) # 12 THEN Pair(FALSE, ErrAadhaarLength)
    ELSE LET r == stringToDigits(aadhaarStr)
         IN  IF r.err # NoErr THEN Pair(FALSE, ErrAadhaarDigits)
             ELSE LET digits == r.val.elems
                      checksum == digits[Len(digits)]
                      expectedChecksum == calculateChecksum(digits)
                  IN  Pair(checksum = expectedChecksum, NoErr)

ValidateAadhaar(aadhaarStr) ==
    IF ByteLen(aadhaarStr) # 12 THEN Pair(FALSE, ErrAadhaarLength)
    ELSE LET r == stringToDigits(aadhaarStr)
         IN  IF r.err # NoErr THEN Pair(FALSE, ErrAadhaarDigits)
             ELSE LET digits == r.val.elems
                      checksum == digits[Len(digits)]
                      expectedChecksum ==
                          calculateChecksum(SubSeq(digits, 1, Len(digits) - 1))
                  IN  Pair(checksum = expectedChecksum, NoErr)

RECURSIVE stripZeros(_)
\* the text without its leading zeros (the decimal text of its value)
stripZeros(s) == IF Len(s) > 1 /\ Head(s) = 48 THEN stripZeros(Tail(s)) ELSE s

\* mutant of AppendChecksumString: the digit is appended to the normalized
\* number, not to the text as given
AppendChecksumString_normalized(s) ==
    LET g == GenerateFromString(s)
    IN  IF g.err # NoErr THEN Pair(<<>>, g.err)
        ELSE Pair(stripZeros(s) \o Itoa(g.val), NoErr)

AppendChecksumString(s) ==
    LET g == GenerateFromString(s)
    IN  IF g.err # NoErr THEN Pair(<<>>, g.err)
        ELSE Pair(s \o Itoa(g.val), NoErr)

AppendChecksumInt(n) == Itoa(n) \o Itoa(GenerateInt(n))

AppendChecksumInt64(n) == Itoa(n) \o Itoa(GenerateInt64(n))

RECURSIVE appendLoop(_, _)
\* for _, d := range digits { result += strconv.Itoa(d) }
appendLoop(digits, result) ==
    IF digits = <<>> THEN result
    ELSE appendLoop(Tail(digits), result \o Itoa(Head(digits)))

AppendChecksumSlice(digits) ==
    LET g == GenerateSlice(digits)
    IN  IF g.err # NoErr THEN Pair(<<>>, g.err)
        ELSE Pair(appendLoop(digits, <<>>) \o Itoa(g.val), NoErr)

\* mutant of AppendChecksum: the type switch has no case for int
AppendChecksum_noIntCase(in) ==
    CASE in.kind = "string" -> AppendChecksumString(in.v)
      [] in.kind = "int64" -> Pair(AppendChecksumInt64(in.v), NoErr)
      [] in.kind = "slice" -> AppendChecksumSlice(in.v)
      [] OTHER -> Pair(<<>>, ErrUnsupported)

AppendChecksum(in) ==
    CASE in.kind = "string" -> AppendChecksumString(in.v)
      [] in.kind = "int" -> Pair(AppendChecksumInt(in.v), NoErr)
      [] in.kind = "int64" -> Pair(AppendChecksumInt64(in.v), NoErr)
      [] in.kind = "slice" -> AppendChecksumSlice(in.v)
      [] OTHER -> Pair(<<>>, ErrUnsupported)

ConvertToDigits(in) ==
    CASE in.kind = "string" -> stringToDigits(in.v)
      [] in.kind = "int" -> Pair(Slice(intToDigits(in.v)), NoErr)
      [] in.kind = "int64" -> Pair(Slice(int64ToDigits(in.v)), NoErr)
      [] in.kind = "slice" -> sliceToDigits(in.v)
      [] OTHER -> Pair(NilSlice, ErrUnsupported)

\* mutant of InvertArray: the copy is returned without the call of
\* reverseDigits
InvertArray_notReversed(in) ==
    LET r == ConvertToDigits(in)
    IN  IF r.err # NoErr THEN Pair(NilSlice, r.err)
        ELSE Pair(Slice(r.val.elems), NoErr)

InvertArray(in) ==
    LET r == ConvertToDigits(in)
    IN  IF r.err # NoErr THEN Pair(NilSlice, r.err)
        ELSE Pair(Slice(reverseDigits(r.val.elems)), NoErr)

GenerateString(in) ==
    LET g == Generate(in)
    IN  IF g.err # NoErr THEN Pair(<<>>, g.err)
        ELSE Pair(Itoa(g.val), NoErr)

(***************************************************************************)
(* The original implementation of the generic functions, kept in the       *)
(* repository after integration_test.go.  It knows string and int; an int  *)
(* is converted through its decimal text.                                  *)
(***************************************************************************)
ErrOriginalUnsupported == "unsupported input type, must be string or int"

RECURSIVE OriginalStringLoop(_, _)
\* for _, char := range v over the characters not yet read; digits starts nil
OriginalStringLoop(s, digits) ==
    IF s = <<>> THEN Pair(digits, NoErr)
    ELSE IF ~IsDigit(Head(s)) THEN Pair(NilSlice, ErrNonDigit)
    ELSE OriginalStringLoop(Tail(s), Slice(Append(digits.elems, AtoiChar(Head(s)))))

OriginalConvertToDigits(in) ==
    CASE in.kind = "int" -> OriginalStringLoop(Itoa(in.v), NilSlice)
      [] in.kind = "string" -> OriginalStringLoop(in.v, NilSlice)
      [] OTHER -> Pair(NilSlice, ErrOriginalUnsupported)

\* the digits are reversed in place and returned
OriginalInvertArray(in) ==
    LET r == OriginalConvertToDigits(in)
    IN  IF r.err # NoErr THEN Pair(NilSlice, r.err)
        ELSE Pair([nil |-> r.val.nil, elems |-> reverseDigits(r.val.elems)], NoErr)

OriginalGenerate(in) ==
    LET r == OriginalInvertArray(in)
    IN  IF r.err # NoErr THEN Pair(-1, r.err)
        ELSE Pair(invAt(calculateLoop(r.val.elems, 0, 0)), NoErr)

OriginalValidate(in) ==
    LET r == OriginalInvertArray(in)
    IN  IF r.err # NoErr THEN Pair(FALSE, r.err)
        ELSE Pair(validateLoop(r.val.elems, 0, 0) = 0, NoErr)

OriginalAppendChecksum(in) ==
    IF in.kind \notin {"int", "string"} THEN Pair(<<>>, ErrOriginalUnsupported)
    ELSE LET inputStr == IF in.kind = "int" THEN Itoa(in.v) ELSE in.v
             g == OriginalGenerate([kind |-> "string", v |-> inputStr])
         IN  IF g.err # NoErr THEN Pair(<<>>, g.err)
             ELSE Pair(inputStr \o Itoa(g.val), NoErr)

(***************************************************************************)
(* Arguments of a call.  A string argument is a run of at most MaxFree     *)
(* free characters followed by a fixed run of at most MaxPad digits, so    *)
(* that every character and every pair of neighbouring characters occurs   *)
(* at every position of the permutation index, or a fixed run of digits    *)
(* followed by one free character, or one of the reference texts of the    *)
(* tests.                                                                  *)
(***************************************************************************)
\* '0'..'9', the letter a, and ARABIC-INDIC DIGIT THREE (U+0663, two bytes)
Chars == AsciiDigits \cup {97, 1635}

\* the digits 0, 7, 4, 1, 8, 5, 2, 9, 6, 3, 0, ... as characters
Pad(k) == [i \in 1 .. k |-> 48 + ((7 * i + 3) % 10)]

SeqsUpTo(S, n) == UNION {[1 .. k -> S] : k \in 0 .. n}

\* the text of a sequence of digit values
Text(digits) == [i \in 1 .. Len(digits) |-> 48 + digits[i]]

\* reference values of the tests and the README: text and its check digit
RefGenerate ==
    {<<Text(<<2, 3, 6>>), 3>>,
     <<Text(<<1, 2, 3, 4, 5>>), 1>>,
     <<Text(<<0>>), 4>>,
     <<Text(<<1>>), 5>>,
     <<Text(<<5>>), 8>>,
     <<Text(<<1, 4, 2, 8, 5, 7>>), 0>>,
     <<Text(<<1, 2, 3, 4, 5, 6, 7, 8, 9>>), 0>>,
     <<Text(<<0, 0, 0, 0, 0, 0, 0, 0>>), 1>>,
     <<Text(<<0, 0, 0, 0, 0, 0, 0, 0, 0, 0>>), 5>>,
     <<Text(<<8, 4, 7, 3, 6, 4, 3, 0, 9, 5>>), 0>>,
     <<Text(<<8, 4, 7, 3, 6, 4, 3, 0, 9, 5, 2>>), 5>>,
     <<Text(<<1, 9, 9, 8, 1, 2, 3, 1, 0, 0, 0, 1>>), 2>>,
     <<Text(<<2, 0, 2, 4, 0, 1, 0, 1, 0, 0, 0, 1>>), 2>>,
     <<Text(<<1, 0, 0, 0, 0, 0, 0, 0, 0, 0, 0, 1>>), 5>>,
     <<Text(<<9, 9, 9, 9, 9, 9, 9, 9, 9, 9, 9, 9>>), 9>>}

\* text and whether it validates
RefValidate ==
    {<<Text(<<2, 3, 6, 3>>), TRUE>>,
     <<Text(<<1, 2, 3, 4, 5, 1>>), TRUE>>,
     <<Text(<<2, 3, 6, 4>>), FALSE>>,
     <<Text(<<1, 2, 3, 4, 5, 0>>), FALSE>>}

\* Aadhaar numbers given as valid
RefAadhaar ==
    {Text(<<2, 3, 4, 5, 6, 7, 8, 9, 0, 1, 2, 4>>),
     Text(<<1, 2, 3, 4, 5, 6, 7, 8, 9, 0, 1, 0>>)}

RefInputs == {r[1] : r \in RefGenerate} \cup {r[1] : r \in RefValidate} \cup RefAadhaar

StringInputs ==
    {w \o Pad(k) : k \in 0 .. MaxPad, w \in SeqsUpTo(Chars, MaxFree)}
        \cup {Append(Pad(k), c) : k \in 0 .. MaxPad, c \in Chars}
        \cup RefInputs

IntInputs == MinInt .. MaxInt

SliceInputs == SeqsUpTo(-1 .. 10, MaxFree)

\* the dynamic type and value of an interface{} argument; float64 stands for
\* every type the type switches do not list
StringArgs == {[kind |-> "string", v |-> s] : s \in StringInputs}

IntArgs == {[kind |-> "int", v |-> n] : n \in IntInputs}

Int64Args == {[kind |-> "int64", v |-> n] : n \in IntInputs}

SliceArgs == {[kind |-> "slice", v |-> s] : s \in SliceInputs}

OtherArgs == {[kind |-> "float64", v |-> 0]}

(***************************************************************************)
(* Goroutines, their frames and the heap.  A slice is a header (ptr, len)  *)
(* over a backing array of the heap; a location is <<region, index>>.      *)
(***************************************************************************)
Goroutines == 1 .. NumGoroutines

\* the calls a goroutine may make: a function and its string argument
\* ("236", "2363", "12", "2a" and "")
ConcCalls ==
    {[fn |-> "GenerateFromString", arg |-> <<50, 51, 54>>],
     [fn |-> "ValidateString", arg |-> <<50, 51, 54, 51>>],
     [fn |-> "AppendChecksumString", arg |-> <<49, 50>>],
     [fn |-> "ValidateString", arg |-> <<50, 97>>],
     [fn |-> "ValidateString", arg |-> <<>>],
     [fn |-> "GenerateFromString", arg |-> <<>>]}

\* the package-level tables d, p and inv as memory locations
TableLoc(name) == <<name, 0>>

\* backing arrays: a call holds at most digits and reversed
BufLocs == {<<"buf", k>> : k \in 1 .. 2 * NumGoroutines}

\* the pointer of a slice without backing array (nil, []int{}, make of 0)
NilLoc == <<"nil", 0>>

NilHeader == [ptr |-> NilLoc, len |-> 0]

\* elements of a backing array: the longest argument
BufCap == CHOOSE n \in {Len(call.arg) : call \in ConcCalls} :
              \A call \in ConcCalls : Len(call.arg) <= n

\* memory as make returns it
ZeroArray == [k \in 1 .. BufCap |-> 0]

\* the array holding elems from index 0
ArrayOf(elems) == [k \in 1 .. BufCap |-> IF k <= Len(elems) THEN elems[k] ELSE 0]

\* the elements of the slice hdr
Elems(h, hdr) == [k \in 1 .. hdr.len |-> h[hdr.ptr][k]]

\* mutant of NewLoc: one scratch array serves every make
NewLoc_scratch(g, k) == <<"buf", 1>>

\* mutant of NewLoc: each make statement has one array for all its calls
NewLoc_perStatement(g, k) == <<"buf", k>>

\* make: memory no other live slice refers to; the array of the k-th make
\* (digits, then reversed) of the call running in goroutine g
NewLoc(g, k) == <<"buf", 2 * (g - 1) + k>>

\* what a function returns next to a non-nil error
FailureOf(fn) ==
    CASE fn = "GenerateFromString" -> -1
      [] fn = "ValidateString" -> FALSE
      [] fn = "AppendChecksumString" -> <<>>

\* offset of the permutation index: (i+1)%8 in calculateChecksum, i%8 in
\* validateChecksum
OffsetOf(fn) == IF fn = "ValidateString" THEN 0 ELSE 1

\* a goroutine between two calls
IdleFrame ==
    [pc |-> "idle", fn |-> "none", arg |-> <<>>, digits |-> NilHeader,
     reversed |-> NilHeader, i |-> 0, c |-> 0, ret |-> Pair(0, NoErr),
     acc |-> {}]

\* no call remembered
NoMemo == [fn |-> "none", arg |-> <<>>, ret |-> Pair(0, NoErr), failedAfter |-> FALSE]

(***************************************************************************)
(* One call: the argument is given, a public function is applied to it.    *)
(***************************************************************************)
Init ==
    /\ \/ input \in StringArgs
       \/ input \in IntArgs
       \/ input \in Int64Args
       \/ input \in SliceArgs
       \/ input \in OtherArgs
    /\ op = "none"
    /\ ret = "none"
    /\ frame = [g \in Goroutines |-> IdleFrame]
    /\ heap = [l \in BufLocs |-> ZeroArray]
    /\ memo = NoMemo

\* the call of function name returning result
Call(name, result) ==
    /\ op = "none"
    /\ op' = name
    /\ ret' = result
    /\ UNCHANGED <<input, frame, heap, memo>>

CallGenerateFromString ==
    input.kind = "string" /\ Call("GenerateFromString", GenerateFromString(input.v))

CallGenerateInt ==
    input.kind = "int" /\ Call("GenerateInt", GenerateInt(input.v))

CallGenerateInt64 ==
    input.kind = "int64" /\ Call("GenerateInt64", GenerateInt64(input.v))

CallGenerateSlice ==
    input.kind = "slice" /\ Call("GenerateSlice", GenerateSlice(input.v))

CallGenerate == Call("Generate", Generate(input))

CallValidateString ==
    input.kind = "string" /\ Call("ValidateString", ValidateString(input.v))

CallValidateInt ==
    input.kind = "int" /\ Call("ValidateInt", ValidateInt(input.v))

CallValidateInt64 ==
    input.kind = "int64" /\ Call("ValidateInt64", ValidateInt64(input.v))

CallValidateSlice ==
    input.kind = "slice" /\ Call("ValidateSlice", ValidateSlice(input.v))

CallValidate == Call("Validate", Validate(input))

CallValidateAadhaar ==
    input.kind = "string" /\ Call("ValidateAadhaar", ValidateAadhaar(input.v))

CallAppendChecksumString ==
    input.kind = "string" /\ Call("AppendChecksumString", AppendChecksumString(input.v))

CallAppendChecksumInt ==
    input.kind = "int" /\ Call("AppendChecksumInt", AppendChecksumInt(input.v))

CallAppendChecksumInt64 ==
    input.kind = "int64" /\ Call("AppendChecksumInt64", AppendChecksumInt64(input.v))

CallAppendChecksumSlice ==
    input.kind = "slice" /\ Call("AppendChecksumSlice", AppendChecksumSlice(input.v))

CallAppendChecksum == Call("AppendChecksum", AppendChecksum(input))

CallConvertToDigits == Call("ConvertToDigits", ConvertToDigits(input))

CallInvertArray == Call("InvertArray", InvertArray(input))

CallGenerateString == Call("GenerateString", GenerateString(input))

Next ==
    \/ CallGenerateFromString
    \/ CallGenerateInt
    \/ CallGenerateInt64
    \/ CallGenerateSlice
    \/ CallGenerate
    \/ CallValidateString
    \/ CallValidateInt
    \/ CallValidateInt64
    \/ CallValidateSlice
    \/ CallValidate
    \/ CallValidateAadhaar
    \/ CallAppendChecksumString
    \/ CallAppendChecksumInt
    \/ CallAppendChecksumInt64
    \/ CallAppendChecksumSlice
    \/ CallAppendChecksum
    \/ CallConvertToDigits
    \/ CallInvertArray
    \/ CallGenerateString

Spec == Init /\ [][Next]_vars

(***************************************************************************)
(* Concurrent calls.  Each goroutine runs one call at a time; a step is    *)
(* the conversion of the argument, the reversed copy, one iteration of     *)
(* the range loop, or the return.  acc collects the locations the call     *)
(* has read ("r") and written ("w").                                       *)
(***************************************************************************)
InitConc ==
    /\ input = [kind |-> "string", v |-> <<>>]
    /\ op = "none"
    /\ ret = "none"
    /\ frame = [g \in Goroutines |-> IdleFrame]
    /\ heap = [l \in BufLocs |-> ZeroArray]
    /\ memo = NoMemo

\* goroutine g enters the function of call
Begin(g, call) ==
    /\ frame[g].pc = "idle"
    /\ frame' = [frame EXCEPT ![g] =
                     [IdleFrame EXCEPT !.pc = "convert", !.fn = call.fn,
                                       !.arg = call.arg]]
    /\ UNCHANGED <<input, op, ret, heap, memo>>

\* digits, err := stringToDigits(s), and the tests on err and len(digits)
Convert(g) ==
    /\ frame[g].pc = "convert"
    /\ LET f == frame[g]
           r == stringToDigits(f.arg)
           l == NewLoc(g, 1)
       IN  IF r.err # NoErr
           THEN /\ frame' = [frame EXCEPT ![g].pc = "done",
                                          ![g].ret = Pair(FailureOf(f.fn), r.err)]
                /\ heap' = heap
           ELSE IF f.fn = "ValidateString" /\ Len(r.val.elems) = 0
           THEN /\ frame' = [frame EXCEPT ![g].pc = "done",
                                          ![g].ret = Pair(FALSE, ErrEmpty)]
                /\ heap' = heap
           ELSE IF f.arg = <<>>
           THEN /\ frame' = [frame EXCEPT ![g].pc = "copy"]
                /\ heap' = heap
           ELSE /\ frame' = [frame EXCEPT
                                ![g].pc = "copy",
                                ![g].digits = [ptr |-> l, len |-> Len(r.val.elems)],
                                ![g].acc = @ \cup {[loc |-> l, mode |-> "w"]}]
                /\ heap' = [heap EXCEPT ![l] = ArrayOf(r.val.elems)]
    /\ UNCHANGED <<input, op, ret, memo>>

\* reversed := make([]int, len(digits)); copy(reversed, digits);
\* reverseDigits(reversed); c := 0
CopyReversed(g) ==
    /\ frame[g].pc = "copy"
    /\ LET f == frame[g]
           l == NewLoc(g, 2)
       IN  IF f.digits.len = 0
           THEN /\ frame' = [frame EXCEPT ![g].pc = "range", ![g].i = 0, ![g].c = 0]
                /\ heap' = heap
           ELSE /\ frame' = [frame EXCEPT
                                ![g].pc = "range", ![g].i = 0, ![g].c = 0,
                                ![g].reversed = [ptr |-> l, len |-> f.digits.len],
                                ![g].acc = @ \cup {[loc |-> f.digits.ptr, mode |-> "r"],
                                                  [loc |-> l, mode |-> "w"]}]
                /\ heap' = [heap EXCEPT
                               ![l] = ArrayOf(reverseDigits(Elems(heap, f.digits)))]
    /\ UNCHANGED <<input, op, ret, memo>>

\* one iteration of for i, digit := range reversed
RangeStep(g) ==
    /\ frame[g].pc = "range"
    /\ frame[g].i < frame[g].reversed.len
    /\ LET f == frame[g]
           digit == heap[f.reversed.ptr][f.i + 1]
       IN  frame' = [frame EXCEPT
                        ![g].c = dAt(f.c, pAt((f.i + OffsetOf(f.fn)) % 8, digit)),
                        ![g].i = f.i + 1,
                        ![g].acc = @ \cup {[loc |-> f.reversed.ptr, mode |-> "r"],
                                          [loc |-> TableLoc("d"), mode |-> "r"],
                                          [loc |-> TableLoc("p"), mode |-> "r"]}]
    /\ UNCHANGED <<input, op, ret, heap, memo>>

\* the loop is over: return inv[c], c == 0, or s + strconv.Itoa(inv[c])
Finish(g) ==
    /\ frame[g].pc = "range"
    /\ frame[g].i = frame[g].reversed.len
    /\ LET f == frame[g]
       IN  frame' = [frame EXCEPT
                        ![g].pc = "done",
                        ![g].ret =
                            CASE f.fn = "GenerateFromString" -> Pair(invAt(f.c), NoErr)
                              [] f.fn = "ValidateString" -> Pair(f.c = 0, NoErr)
                              [] f.fn = "AppendChecksumString" ->
                                     Pair(f.arg \o Itoa(invAt(f.c)), NoErr),
                        ![g].acc =
                            IF f.fn = "ValidateString" THEN @
                            ELSE @ \cup {[loc |-> TableLoc("inv"), mode |-> "r"]}]
    /\ UNCHANGED <<input, op, ret, heap, memo>>

\* the caller has the result: the locals are gone and their arrays are
\* garbage; the call may be the one that is remembered
Return(g) ==
    /\ frame[g].pc = "done"
    /\ LET f == frame[g]
       IN  /\ frame' = [frame EXCEPT ![g] = IdleFrame]
           /\ heap' = [l \in BufLocs |->
                          IF l \in {f.digits.ptr, f.reversed.ptr} THEN ZeroArray
                          ELSE heap[l]]
           /\ \/ /\ memo.fn = "none"
                 /\ memo' = [fn |-> f.fn, arg |-> f.arg, ret |-> f.ret,
                             failedAfter |-> FALSE]
              \/ /\ memo.fn # "none"
                 /\ f.ret.err # NoErr
                 /\ memo' = [memo EXCEPT !.failedAfter = TRUE]
              \/ memo' = memo
    /\ UNCHANGED <<input, op, ret>>

NextConc ==
    \/ \E g \in Goroutines, call \in ConcCalls : Begin(g, call)
    \/ \E g \in Goroutines : Convert(g)
    \/ \E g \in Goroutines : CopyReversed(g)
    \/ \E g \in Goroutines : RangeStep(g)
    \/ \E g \in Goroutines : Finish(g)
    \/ \E g \in Goroutines : Return(g)

SpecConc == InitConc /\ [][NextConc]_vars

(***************************************************************************)
(* The functions with their memory.  h maps every allocated location to    *)
(* its array: the rows of the tables d, p and inv, the array of the        *)
(* caller's []int, and the arrays the functions make.  A function takes h  *)
(* and gives h after its writes together with what it returns.             *)
(***************************************************************************)
\* the backing array of the slice the caller passes
CallerLoc == <<"buf", 1>>

\* the arrays of the package-level tables: one for each row of d and of p,
\* one for inv
TableArrays ==
    [l \in {<<"d", r>> : r \in 0 .. Len(d) - 1}
            \cup {<<"p", r>> : r \in 0 .. Len(p) - 1}
            \cup {TableLoc("inv")} |->
        IF l[1] = "d" THEN d[l[2] + 1]
        ELSE IF l[1] = "p" THEN p[l[2] + 1]
        ELSE inv]

\* d[a][b], p[r][x] and inv[c] read from memory
dMem(h, a, b) == h[<<"d", a>>][b + 1]

pMem(h, r, x) == h[<<"p", r>>][x + 1]

invMem(h, c) == h[TableLoc("inv")][c + 1]

\* the elements of the slice hdr in h
ReadSlice(h, hdr) == [k \in 1 .. hdr.len |-> h[hdr.ptr][k]]

\* the elements of the slice hdr are overwritten with elems
WriteSlice(h, hdr, elems) ==
    IF hdr.len = 0 THEN h
    ELSE [h EXCEPT ![hdr.ptr] =
             [k \in DOMAIN h[hdr.ptr] |-> IF k <= hdr.len THEN elems[k] ELSE @[k]]]

\* mutant of MakeSlice: no array is allocated, row 0 of p serves as the array
MakeSlice_overTable(h, n, capacity) == [h |-> h, hdr |-> [ptr |-> <<"p", 0>>, len |-> n]]

\* make([]int, n, capacity): a new zeroed array and the slice of its first n
\* elements
MakeSlice(h, n, capacity) ==
    LET l == <<"buf", Cardinality({x \in DOMAIN h : x[1] = "buf"}) + 1>>
    IN  [h |-> h @@ (l :> [k \in 1 .. capacity |-> 0]), hdr |-> [ptr |-> l, len |-> n]]

\* the elements written when a range loop that tests its elements ends: those
\* before the first one that fails the test
TestedPrefix(elems, accepted) ==
    LET n == Cardinality({k \in 1 .. Len(elems) : \A j \in 1 .. k : elems[j] \in accepted})
    IN  [k \in 1 .. n |-> elems[k]]

\* stringToDigits: digits := make([]int, 0, len(s)), one append for each
\* character until a character is not a digit
stringToDigitsMem(h, s) ==
    IF s = <<>> THEN [h |-> h, val |-> NilHeader, err |-> NoErr]
    ELSE LET m == MakeSlice(h, 0, ByteLen(s))
             r == stringLoop(s, <<>>)
             read == TestedPrefix(s, {char \in 0 .. 2415 : IsDigit(char)})
             written == [k \in 1 .. Len(read) |-> AtoiChar(read[k])]
             digits == [ptr |-> m.hdr.ptr, len |-> Len(written)]
         IN  IF r.err # NoErr
             THEN [h |-> WriteSlice(m.h, digits, written), val |-> NilHeader,
                   err |-> r.err]
             ELSE [h |-> WriteSlice(m.h, digits, written), val |-> digits,
                   err |-> NoErr]

\* intToDigits / int64ToDigits: []int{0}, or digits := make([]int, count)
\* filled from its last element
intToDigitsMem(h, n) ==
    LET elems == intToDigits(n)
        m == MakeSlice(h, Len(elems), Len(elems))
    IN  [h |-> WriteSlice(m.h, m.hdr, elems), val |-> m.hdr, err |-> NoErr]

\* mutant of sliceToDigitsMem: the slice is tested and returned as it is
sliceToDigitsMem_noCopy(h, slice) ==
    LET r == sliceLoop(ReadSlice(h, slice), 0, [k \in 1 .. slice.len |-> 0])
    IN  IF r.err # NoErr THEN [h |-> h, val |-> NilHeader, err |-> r.err]
        ELSE [h |-> h, val |-> slice, err |-> NoErr]

\* sliceToDigits: result := make([]int, len(slice)), result[i] = digit until
\* a digit is out of range
sliceToDigitsMem(h, slice) ==
    LET m == MakeSlice(h, slice.len, slice.len)
        elems == ReadSlice(h, slice)
        r == sliceLoop(elems, 0, [k \in 1 .. slice.len |-> 0])
        written == TestedPrefix(elems, 0 .. 9)
        h1 == WriteSlice(m.h, [ptr |-> m.hdr.ptr, len |-> Len(written)], written)
    IN  IF r.err # NoErr THEN [h |-> h1, val |-> NilHeader, err |-> r.err]
        ELSE [h |-> h1, val |-> m.hdr, err |-> NoErr]

\* reverseDigits swaps in place
reverseDigitsMem(h, digits) == WriteSlice(h, digits, reverseDigits(ReadSlice(h, digits)))

\* reversed := make([]int, len(digits)); copy(reversed, digits);
\* reverseDigits(reversed)
reversedCopyMem(h, digits) ==
    LET m == MakeSlice(h, digits.len, digits.len)
        copied == WriteSlice(m.h, m.hdr, ReadSlice(h, digits))
    IN  [h |-> reverseDigitsMem(copied, m.hdr), hdr |-> m.hdr]

RECURSIVE calculateLoopMem(_, _, _, _)
\* for i, digit := range reversed { c = d[c][p[(i+1)%8][digit]] }
calculateLoopMem(h, reversed, i, c) ==
    IF i = reversed.len THEN c
    ELSE calculateLoopMem(h, reversed, i + 1,
                          dMem(h, c, pMem(h, (i + 1) % 8, h[reversed.ptr][i + 1])))

RECURSIVE validateLoopMem(_, _, _, _)
\* for i, digit := range reversed { c = d[c][p[i%8][digit]] }
validateLoopMem(h, reversed, i, c) ==
    IF i = reversed.len THEN c
    ELSE validateLoopMem(h, reversed, i + 1,
                         dMem(h, c, pMem(h, i % 8, h[reversed.ptr][i + 1])))

calculateChecksumMem(h, digits) ==
    LET r == reversedCopyMem(h, digits)
    IN  [h |-> r.h, val |-> invMem(r.h, calculateLoopMem(r.h, r.hdr, 0, 0))]

validateChecksumMem(h, digits) ==
    IF digits.len = 0 THEN [h |-> h, val |-> FALSE]
    ELSE LET r == reversedCopyMem(h, digits)
         IN  [h |-> r.h, val |-> validateLoopMem(r.h, r.hdr, 0, 0) = 0]

\* the conversion the type-specific functions start with; arg is the string,
\* the int, or the header of the []int
toDigitsMem(h, kind, arg) ==
    CASE kind = "string" -> stringToDigitsMem(h, arg)
      [] kind = "int" -> intToDigitsMem(h, arg)
      [] kind = "int64" -> intToDigitsMem(h, arg)
      [] kind = "slice" -> sliceToDigitsMem(h, arg)

\* GenerateFromString / GenerateInt / GenerateInt64 / GenerateSlice
GenerateMem(h, kind, arg) ==
    LET r == toDigitsMem(h, kind, arg)
    IN  IF r.err # NoErr THEN [h |-> r.h, ret |-> Pair(-1, r.err)]
        ELSE LET c == calculateChecksumMem(r.h, r.val)
             IN  [h |-> c.h, ret |-> Pair(c.val, NoErr)]

\* ValidateString / ValidateSlice (with the test for no digits), ValidateInt /
\* ValidateInt64
ValidateMem(h, kind, arg) ==
    LET r == toDigitsMem(h, kind, arg)
    IN  IF r.err # NoErr THEN [h |-> r.h, ret |-> Pair(FALSE, r.err)]
        ELSE IF kind \in {"string", "slice"} /\ r.val.len = 0
        THEN [h |-> r.h, ret |-> Pair(FALSE, ErrEmpty)]
        ELSE LET c == validateChecksumMem(r.h, r.val)
             IN  [h |-> c.h, ret |-> Pair(c.val, NoErr)]

\* the range loop reads the caller's slice after GenerateSlice has returned
AppendChecksumSliceMem(h, digits) ==
    LET g == GenerateMem(h, "slice", digits)
    IN  IF g.ret.err # NoErr THEN [h |-> g.h, ret |-> Pair(<<>>, g.ret.err)]
        ELSE [h |-> g.h,
              ret |-> Pair(appendLoop(ReadSlice(g.h, digits), <<>>) \o Itoa(g.ret.val),
                           NoErr)]

\* ConvertToDigits: the slice header of the result is returned
ConvertToDigitsMem(h, kind, arg) ==
    LET r == toDigitsMem(h, kind, arg)
    IN  [h |-> r.h, ret |-> Pair(r.val, r.err)]

\* InvertArray: result := make([]int, len(digits)); copy; reverseDigits(result)
InvertArrayMem(h, kind, arg) ==
    LET r == ConvertToDigitsMem(h, kind, arg)
    IN  IF r.ret.err # NoErr THEN [h |-> r.h, ret |-> Pair(NilHeader, r.ret.err)]
        ELSE LET c == reversedCopyMem(r.h, r.ret.val)
             IN  [h |-> c.h, ret |-> Pair(c.hdr, NoErr)]

\* the slice the caller passes: all of its array
CallerSlice == [ptr |-> CallerLoc, len |-> Len(input.v)]

\* the argument as the functions get it
ArgMem == IF input.kind = "slice" THEN CallerSlice ELSE input.v

InitMem ==
    /\ \/ input \in StringArgs
       \/ input \in IntArgs
       \/ input \in Int64Args
       \/ input \in SliceArgs
    /\ op = "none"
    /\ ret = "none"
    /\ heap = IF input.kind = "slice" THEN (CallerLoc :> input.v) @@ TableArrays
              ELSE TableArrays
    /\ frame = [g \in Goroutines |-> IdleFrame]
    /\ memo = NoMemo

\* the call of function name, result its memory and return value
CallMem(name, result) ==
    /\ op = "none"
    /\ op' = name
    /\ ret' = result.ret
    /\ heap' = result.h
    /\ UNCHANGED <<input, frame, memo>>

MemGenerate == CallMem("Generate", GenerateMem(heap, input.kind, ArgMem))

MemValidate == CallMem("Validate", ValidateMem(heap, input.kind, ArgMem))

MemAppendChecksumSlice ==
    /\ input.kind = "slice"
    /\ CallMem("AppendChecksumSlice", AppendChecksumSliceMem(heap, CallerSlice))

MemConvertToDigits ==
    CallMem("ConvertToDigits", ConvertToDigitsMem(heap, input.kind, ArgMem))

MemInvertArray == CallMem("InvertArray", InvertArrayMem(heap, input.kind, ArgMem))

NextMem ==
    \/ MemGenerate
    \/ MemValidate
    \/ MemAppendChecksumSlice
    \/ MemConvertToDigits
    \/ MemInvertArray

SpecMem == InitMem /\ [][NextMem]_vars

(***************************************************************************)
(* Table lookups.  The argument is three elements a, b, c; one action      *)
(* multiplies them with d in both groupings and looks the inverse of a up, *)
(* the other applies row a of p, and row a+1, to b.                        *)
(***************************************************************************)
TableArgs == {[kind |-> "elements", v |-> <<a, b, c>>] : a, b, c \in DOMAIN inv}

InitTables ==
    /\ input \in TableArgs
    /\ op = "none"
    /\ ret = "none"
    /\ frame = [g \in Goroutines |-> IdleFrame]
    /\ heap = [l \in BufLocs |-> ZeroArray]
    /\ memo = NoMemo

\* d[d[a][b]][c], d[a][d[b][c]], inv[a] and the products of a and inv[a]
Multiply ==
    LET a == input.v[1] - 1
        b == input.v[2] - 1
        c == input.v[3] - 1
    IN  Call("d", [left |-> dAt(dAt(a, b), c), right |-> dAt(a, dAt(b, c)),
                   inverse |-> invAt(a), aInv |-> dAt(a, invAt(a)),
                   invA |-> dAt(invAt(a), a)])

\* p[(a+1)%8][b] and p[a][p[1][b]] for a row a of p
Permute ==
    LET a == input.v[1] - 1
        b == input.v[2] - 1
    IN  /\ a + 1 \in DOMAIN p
        /\ Call("p", [next |-> pAt((a + 1) % 8, b), composed |-> pAt(a, pAt(1, b))])

NextTables ==
    \/ Multiply
    \/ Permute

SpecTables == InitTables /\ [][NextTables]_vars

(***************************************************************************)
(* Vocabulary of the properties.                                           *)
(***************************************************************************)
\* s is made only of the characters '0'..'9'
IsAsciiDigitString(s) == \A i \in 1 .. Len(s) : s[i] \in AsciiDigits

\* s holds a character that is not a decimal digit
HasNonDigit(s) == \E i \in 1 .. Len(s) : ~IsDigit(s[i])

\* slice holds an element below 0 or above 9
HasOutOfRange(slice) == \E i \in 1 .. Len(slice) : slice[i] < 0 \/ slice[i] > 9

\* the digit values of a text of the characters '0'..'9'
DigitsOfText(s) == [i \in 1 .. Len(s) |-> s[i] - 48]

RECURSIVE ValueOf(_)
\* the number a most-significant-first digit sequence writes
ValueOf(digits) ==
    IF digits = <<>> THEN 0
    ELSE 10 * ValueOf(SubSeq(digits, 1, Len(digits) - 1)) + digits[Len(digits)]

\* the character of the digit c
DigitChar(c) == 48 + c

\* s with position i replaced by the character v
ReplaceAt(s, i, v) == [s EXCEPT ![i] = v]

\* s with positions i and i+1 exchanged
SwapAt(s, i) == [s EXCEPT ![i] = s[i + 1], ![i + 1] = s[i]]

\* a call of GenerateFromString on a string of '0'..'9' has returned; the
\* text followed by the returned digit
GeneratedForDigits == op = "GenerateFromString" /\ IsAsciiDigitString(input.v)

Full == input.v \o <<DigitChar(ret.val)>>

(***************************************************************************)
(* Properties.                                                             *)
(***************************************************************************)
\* C1: round trip. For every string s of the characters '0'..'9', the empty
\* string included, AppendChecksumString(s) succeeds and ValidateString of its
\* result is (true, nil); for every non-negative int n, ValidateString of
\* AppendChecksumInt(n) is (true, nil).
C1_RoundTrip ==
    /\ (op = "AppendChecksumString" /\ IsAsciiDigitString(input.v)) =>
           /\ ret.err = NoErr
           /\ ValidateString(ret.val) = Pair(TRUE, NoErr)
    /\ (op = "AppendChecksumInt" /\ input.v >= 0) =>
           ValidateString(ret) = Pair(TRUE, NoErr)

\* a digit string long enough for the position index to wrap got its digit
C1_Witness ==
    /\ op = "AppendChecksumString"
    /\ IsAsciiDigitString(input.v)
    /\ Len(input.v) >= 9
    /\ Len(ret.val) = Len(input.v) + 1

\* C2: single-digit error detection. With full = s followed by the digit
\* GenerateFromString(s), replacing the digit at any one position of full (the
\* check digit's included) by any other digit makes ValidateString return false.
C2_SingleDigitError ==
    GeneratedForDigits =>
        /\ ret.err = NoErr
        /\ \A i \in 1 .. Len(Full) : \A v \in AsciiDigits \ {Full[i]} :
               ValidateString(ReplaceAt(Full, i, v)) = Pair(FALSE, NoErr)

\* a full number of ten digits or more, so errors on both sides of the wrap
C2_Witness ==
    /\ GeneratedForDigits
    /\ ret.err = NoErr
    /\ Len(Full) >= 10
    /\ ValidateString(ReplaceAt(Full, 1, DigitChar((Full[1] - 47) % 10))).val = FALSE

\* C3: adjacent-transposition detection. Exchanging any two neighbouring
\* positions of full whose digits differ makes ValidateString return false,
\* the pair with the check digit and the pairs across the wrap of the position
\* index from 7 to 0 included.
C3_AdjacentTransposition ==
    GeneratedForDigits =>
        \A i \in 1 .. Len(Full) - 1 :
            Full[i] # Full[i + 1] =>
                ValidateString(SwapAt(Full, i)) = Pair(FALSE, NoErr)

\* a full number whose positions 7 and 8 from the right (the wrap) differ, and
\* whose check digit differs from its neighbour
C3_Witness ==
    /\ GeneratedForDigits
    /\ Len(Full) >= 10
    /\ Full[Len(Full) - 7] # Full[Len(Full) - 8]
    /\ Full[Len(Full)] # Full[Len(Full) - 1]
    /\ ValidateString(SwapAt(Full, Len(Full) - 8)).val = FALSE

\* C4: unique check digit. ValidateString(s followed by c) is true exactly
\* when c = GenerateFromString(s): one of the ten final digits validates.
C4_UniqueCheckDigit ==
    GeneratedForDigits =>
        \A c \in 0 .. 9 :
            ValidateString(input.v \o <<DigitChar(c)>>) = Pair(c = ret.val, NoErr)

C4_Witness ==
    /\ GeneratedForDigits
    /\ Len(input.v) >= 8
    /\ ret.val \in 1 .. 9
    /\ Cardinality({c \in 0 .. 9 : ValidateString(input.v \o <<DigitChar(c)>>).val}) = 1

\* C5: for every string of exactly 12 characters '0'..'9', ValidateAadhaar
\* returns what ValidateString returns.
C5_AadhaarAgreesWithValidate ==
    (op = "ValidateAadhaar" /\ Len(input.v) = 12 /\ IsAsciiDigitString(input.v)) =>
        ret = ValidateString(input.v)

\* a 12-digit number that ValidateAadhaar accepts
C5_Witness ==
    /\ op = "ValidateAadhaar"
    /\ Len(input.v) = 12
    /\ IsAsciiDigitString(input.v)
    /\ ret = Pair(TRUE, NoErr)

\* C6: length enforcement. ValidateAadhaar on any input whose length in
\* characters is not 12 fails with the wrong-length error, whatever it holds.
C6_LengthEnforced ==
    (op = "ValidateAadhaar" /\ Len(input.v) # 12) =>
        ret = Pair(FALSE, ErrAadhaarLength)

\* C7: malformed text is always an error. GenerateFromString, ValidateString,
\* AppendChecksumString, and ValidateAadhaar on a 12-character input, return a
\* non-nil error with the failure value (-1, false, "") whenever a character
\* of the input is not a decimal digit, wherever it stands.
C7_MalformedIsError ==
    (op \in {"GenerateFromString", "ValidateString", "AppendChecksumString",
             "ValidateAadhaar"}
        /\ HasNonDigit(input.v)
        /\ (op = "ValidateAadhaar" => Len(input.v) = 12)) =>
        /\ ret.err # NoErr
        /\ op = "GenerateFromString" => ret.val = -1
        /\ op \in {"ValidateString", "ValidateAadhaar"} => ret.val = FALSE
        /\ op = "AppendChecksumString" => ret.val = <<>>

\* the only non-digit is the last character of a long string, after digits
\* that would otherwise have been folded
C7_Witness ==
    /\ op = "GenerateFromString"
    /\ Len(input.v) >= 10
    /\ ~IsDigit(input.v[Len(input.v)])
    /\ \A i \in 1 .. Len(input.v) - 1 : IsDigit(input.v[i])
    /\ ret = Pair(-1, ErrNonDigit)

\* C8: empty validation is an error. ValidateString(""), ValidateSlice of a
\* zero-length slice, and Validate of either, return (false, empty input).
C8_EmptyValidationIsError ==
    /\ (op \in {"ValidateString", "ValidateSlice"} /\ input.v = <<>>) =>
           ret = Pair(FALSE, ErrEmpty)
    /\ (op = "Validate" /\ input.kind \in {"string", "slice"} /\ input.v = <<>>) =>
           ret = Pair(FALSE, ErrEmpty)

C8_Witness ==
    /\ op = "Validate"
    /\ input.kind = "slice"
    /\ input.v = <<>>
    /\ ret.err = ErrEmpty

\* C9: empty generation is defined. GenerateFromString("") is (0, nil),
\* AppendChecksumString("") is ("0", nil), and the empty string converts to an
\* empty digit sequence, not to an error.
C9_EmptyGeneration ==
    (input.kind = "string" /\ input.v = <<>>) =>
        /\ op = "GenerateFromString" => ret = Pair(0, NoErr)
        /\ op = "AppendChecksumString" => ret = Pair(<<DigitChar(0)>>, NoErr)
        /\ op = "ConvertToDigits" => ret = Pair(Slice(<<>>), NoErr)

C9_Witness ==
    /\ op = "AppendChecksumString"
    /\ input.v = <<>>
    /\ ret.val = <<48>>

\* C10: out-of-range digits in an explicit sequence are an error. GenerateSlice,
\* ValidateSlice, AppendChecksumSlice and ConvertToDigits on a []int return a
\* non-nil error with the failure value (-1, false, "", nil) whenever an
\* element is below 0 or above 9, at any index; with every element in 0..9
\* they do not fail for that reason.
C10_OutOfRangeIsError ==
    (input.kind = "slice"
        /\ op \in {"GenerateSlice", "ValidateSlice", "AppendChecksumSlice",
                   "ConvertToDigits"}) =>
        IF HasOutOfRange(input.v)
        THEN /\ ret.err # NoErr
             /\ op = "GenerateSlice" => ret.val = -1
             /\ op = "ValidateSlice" => ret.val = FALSE
             /\ op = "AppendChecksumSlice" => ret.val = <<>>
             /\ op = "ConvertToDigits" => ret.val = NilSlice
        ELSE /\ ret.err # ErrInvalidDigit
             /\ (op # "ValidateSlice" \/ input.v # <<>>) => ret.err = NoErr

\* the offending element is a negative one, after an element in range
C10_Witness ==
    /\ op = "AppendChecksumSlice"
    /\ Len(input.v) = 2
    /\ input.v[1] \in 0 .. 9
    /\ input.v[2] < 0
    /\ ret = Pair(<<>>, ErrInvalidDigit)

\* C11: append keeps the original text. For every digit string s the result
\* of AppendChecksumString(s) has exactly one character more than s, its first
\* len(s) characters are s, leading zeros included, and its last character is
\* the decimal character of GenerateFromString(s).
C11_AppendKeepsText ==
    (op = "AppendChecksumString" /\ IsAsciiDigitString(input.v)) =>
        /\ ret.err = NoErr
        /\ Len(ret.val) = Len(input.v) + 1
        /\ ByteLen(ret.val) = ByteLen(input.v) + 1
        /\ SubSeq(ret.val, 1, Len(input.v)) = input.v
        /\ ret.val[Len(ret.val)] = DigitChar(GenerateFromString(input.v).val)
        /\ GenerateFromString(input.v).val \in 0 .. 9

\* a text with leading zeros got its digit
C11_Witness ==
    /\ op = "AppendChecksumString"
    /\ Len(input.v) >= 5
    /\ input.v[1] = 48
    /\ input.v[2] = 48
    /\ IsAsciiDigitString(input.v)
    /\ SubSeq(ret.val, 1, Len(input.v)) = input.v

\* C12: generation agrees across input kinds. For every non-negative integer
\* n, GenerateInt(n), GenerateInt64(n), GenerateFromString(decimal text of n)
\* and GenerateSlice(decimal digits of n) return the same digit.
C12_GenerationAgrees ==
    (op \in {"GenerateInt", "GenerateInt64"} /\ input.v >= 0) =>
        /\ GenerateInt(input.v) = ret
        /\ GenerateInt64(input.v) = ret
        /\ GenerateFromString(Itoa(input.v)) = Pair(ret, NoErr)
        /\ GenerateSlice(DigitsOfText(Itoa(input.v))) = Pair(ret, NoErr)

\* a three-digit number whose digits are not a palindrome
C12_Witness ==
    /\ op = "GenerateInt"
    /\ input.v >= 100
    /\ input.v % 10 # input.v \div 100
    /\ GenerateSlice(DigitsOfText(Itoa(input.v))) = Pair(ret, NoErr)

\* the argument of a ValidateInt call is 10*n + GenerateInt(n) for the
\* non-negative n = argument / 10; the text of n followed by its digit
IsIntWithChecksum ==
    /\ op = "ValidateInt"
    /\ input.v >= 0
    /\ input.v % 10 = GenerateInt(input.v \div 10)

TextWithChecksum(n) == Itoa(n) \o <<DigitChar(GenerateFromString(Itoa(n)).val)>>

\* C13 as stated: validation agrees across input kinds. For every non-negative
\* int n with 10*n+9 representable and its decimal text s, ValidateInt(10*n +
\* GenerateInt(n)) returns the boolean of ValidateString(s followed by
\* GenerateFromString(s)).
C13_ValidationAgrees_Original ==
    IsIntWithChecksum =>
        Pair(ret, NoErr) = ValidateString(TextWithChecksum(input.v \div 10))

\* C13 as amended: the same for every int n >= 1. (For n = 0 the text "04"
\* keeps the zero and validates, the integer 4 does not.)
C13_ValidationAgrees ==
    (IsIntWithChecksum /\ input.v \div 10 >= 1) =>
        Pair(ret, NoErr) = ValidateString(TextWithChecksum(input.v \div 10))

\* a number of two digits or more with its digit, accepted by ValidateInt
C13_Witness ==
    /\ IsIntWithChecksum
    /\ input.v >= 100
    /\ ret = TRUE

\* C14: integer digit extraction. For every non-negative integer n,
\* ConvertToDigits(n) (intToDigits, int64ToDigits) returns the decimal digits
\* of n most-significant first: every element in 0..9, no leading zero, the
\* digits write n, and zero yields exactly [0].
C14_IntegerDigits ==
    (op = "ConvertToDigits" /\ input.kind \in {"int", "int64"} /\ input.v >= 0) =>
        /\ ret.err = NoErr
        /\ ret.val.nil = FALSE
        /\ LET digits == ret.val.elems
           IN  /\ Len(digits) >= 1
               /\ \A i \in 1 .. Len(digits) : digits[i] \in 0 .. 9
               /\ Len(digits) > 1 => digits[1] # 0
               /\ ValueOf(digits) = input.v
               /\ digits = DigitsOfText(Itoa(input.v))
               /\ input.v = 0 => digits = <<0>>

\* a number with an inner and a final zero was decomposed
C14_Witness ==
    /\ op = "ConvertToDigits"
    /\ input.kind = "int64"
    /\ input.v = 1000
    /\ ret = Pair(Slice(<<1, 0, 0, 0>>), NoErr)

\* C15: negative integers are normalized by absolute value. For every
\* negative n of the machine integer type, the most negative value included,
\* the digit sequence produced for n is the non-empty decimal digit sequence
\* of |n|, and GenerateInt(n), ValidateInt(n) give the results of |n|.
C15_NegativesByAbsoluteValue ==
    (input.kind \in {"int", "int64"} /\ input.v < 0) =>
        LET text == ItoaNat(0 - input.v)
        IN  /\ op = "ConvertToDigits" =>
                   /\ ret = Pair(Slice(DigitsOfText(text)), NoErr)
                   /\ ret.val.elems # <<>>
            /\ op \in {"GenerateInt", "GenerateInt64"} =>
                   Pair(ret, NoErr) = GenerateFromString(text)
            /\ op \in {"ValidateInt", "ValidateInt64"} =>
                   Pair(ret, NoErr) = ValidateString(text)

\* C18: result range of generation. Generate, GenerateFromString and
\* GenerateSlice return a value in 0..9 whenever the error is nil and -1
\* whenever it is not; GenerateInt and GenerateInt64 always return a value in
\* 0..9.
C18_GenerateRange ==
    /\ op \in {"Generate", "GenerateFromString", "GenerateSlice"} =>
           IF ret.err = NoErr THEN ret.val \in 0 .. 9 ELSE ret.val = -1
    /\ op \in {"GenerateInt", "GenerateInt64"} => ret \in 0 .. 9

\* the generic entry point failed on a malformed text
C18_Witness ==
    /\ op = "Generate"
    /\ input.kind = "string"
    /\ HasNonDigit(input.v)
    /\ ret = Pair(-1, ErrNonDigit)

\* C19: reference values. GenerateFromString returns the listed digit for
\* each text of RefGenerate ("236" gives 3, "12345" gives 1, "0" gives 4, ...),
\* ValidateString returns true for "2363" and "123451" and false for "2364" and
\* "123450", and ValidateAadhaar returns true for "234567890124" and
\* "123456789010".
C19_ReferenceValues ==
    /\ op = "GenerateFromString" =>
           \A r \in RefGenerate : input.v = r[1] => ret = Pair(r[2], NoErr)
    /\ op = "ValidateString" =>
           \A r \in RefValidate : input.v = r[1] => ret = Pair(r[2], NoErr)
    /\ op = "ValidateAadhaar" =>
           (input.v \in RefAadhaar => ret = Pair(TRUE, NoErr))

\* the date-like twelve-digit reference text got its digit 2
C19_Witness ==
    /\ op = "GenerateFromString"
    /\ input.v = Text(<<1, 9, 9, 8, 1, 2, 3, 1, 0, 0, 0, 1>>)
    /\ ret = Pair(2, NoErr)

\* the kinds the type switches have a case for
SupportedKinds == {"string", "int", "int64", "slice"}

\* C20: unsupported input kinds are rejected. Generate, Validate,
\* AppendChecksum, ConvertToDigits and InvertArray return a non-nil error with
\* the failure value (-1, false, "", nil) for an input that is not a string, an
\* int, an int64 or a []int, and for a supported kind they return what the
\* type-specific function returns (InvertArray: the reversed digits of the
\* type-specific conversion, or nil and its error).
C20_UnsupportedRejected ==
    /\ (op \in {"Generate", "Validate", "AppendChecksum", "ConvertToDigits",
                "InvertArray"} /\ input.kind \notin SupportedKinds) =>
           /\ ret.err # NoErr
           /\ ret.val = CASE op = "Generate" -> -1
                          [] op = "Validate" -> FALSE
                          [] op = "AppendChecksum" -> <<>>
                          [] OTHER -> NilSlice
    /\ (op = "Generate" /\ input.kind = "string") =>
           ret = GenerateFromString(input.v)
    /\ (op = "Generate" /\ input.kind = "int") =>
           ret = Pair(GenerateInt(input.v), NoErr)
    /\ (op = "Generate" /\ input.kind = "int64") =>
           ret = Pair(GenerateInt64(input.v), NoErr)
    /\ (op = "Generate" /\ input.kind = "slice") =>
           ret = GenerateSlice(input.v)
    /\ (op = "Validate" /\ input.kind = "string") =>
           ret = ValidateString(input.v)
    /\ (op = "Validate" /\ input.kind = "int") =>
           ret = Pair(ValidateInt(input.v), NoErr)
    /\ (op = "Validate" /\ input.kind = "int64") =>
           ret = Pair(ValidateInt64(input.v), NoErr)
    /\ (op = "Validate" /\ input.kind = "slice") =>
           ret = ValidateSlice(input.v)
    /\ (op = "AppendChecksum" /\ input.kind = "string") =>
           ret = AppendChecksumString(input.v)
    /\ (op = "AppendChecksum" /\ input.kind = "int") =>
           ret = Pair(AppendChecksumInt(input.v), NoErr)
    /\ (op = "AppendChecksum" /\ input.kind = "int64") =>
           ret = Pair(AppendChecksumInt64(input.v), NoErr)
    /\ (op = "AppendChecksum" /\ input.kind = "slice") =>
           ret = AppendChecksumSlice(input.v)
    /\ (op = "ConvertToDigits" /\ input.kind = "string") =>
           ret = stringToDigits(input.v)
    /\ (op = "ConvertToDigits" /\ input.kind = "int") =>
           ret = Pair(Slice(intToDigits(input.v)), NoErr)
    /\ (op = "ConvertToDigits" /\ input.kind = "int64") =>
           ret = Pair(Slice(int64ToDigits(input.v)), NoErr)
    /\ (op = "ConvertToDigits" /\ input.kind = "slice") =>
           ret = sliceToDigits(input.v)
    /\ (op = "InvertArray" /\ input.kind \in SupportedKinds) =>
           LET r == ConvertToDigits(input)
           IN  ret = IF r.err # NoErr THEN Pair(NilSlice, r.err)
                     ELSE Pair(Slice(reverseDigits(r.val.elems)), NoErr)

\* Generate was called with a float64 and returned -1 and the error
C20_Witness ==
    /\ op = "Generate"
    /\ input.kind = "float64"
    /\ ret = Pair(-1, ErrUnsupported)

\* what a call returns when it runs alone
RunAlone(fn, arg) ==
    CASE fn = "GenerateFromString" -> GenerateFromString(arg)
      [] fn = "ValidateString" -> ValidateString(arg)
      [] fn = "AppendChecksumString" -> AppendChecksumString(arg)

\* goroutines with a call in flight
InFlight == {g \in Goroutines : frame[g].pc # "idle"}

Tables == {TableLoc("d"), TableLoc("p"), TableLoc("inv")}

\* C16: determinism and statelessness. A call's result depends only on its
\* own argument: a call that repeats a remembered call returns what the
\* remembered call returned, whatever calls ran in between, successful or
\* failing, and two goroutines that made the same call have the same result.
C16_Deterministic ==
    /\ \A g \in Goroutines :
           (/\ frame[g].pc = "done"
            /\ memo.fn = frame[g].fn
            /\ memo.arg = frame[g].arg) => frame[g].ret = memo.ret
    /\ \A g, h \in Goroutines :
           (/\ frame[g].pc = "done"
            /\ frame[h].pc = "done"
            /\ frame[g].fn = frame[h].fn
            /\ frame[g].arg = frame[h].arg) => frame[g].ret = frame[h].ret

\* GenerateFromString("236") is repeated after a failing call has returned,
\* and gives the remembered digit again
C16_Witness ==
    /\ memo.fn = "GenerateFromString"
    /\ memo.arg = <<50, 51, 54>>
    /\ memo.failedAfter
    /\ \E g \in Goroutines :
           /\ frame[g].pc = "done"
           /\ frame[g].fn = memo.fn
           /\ frame[g].arg = memo.arg
           /\ frame[g].ret = memo.ret

\* C17: concurrent safety. Under every interleaving a call of
\* GenerateFromString, ValidateString or AppendChecksumString returns what it
\* returns when run alone, no call writes a location another call in flight
\* reads or writes, and the only locations two calls share are the tables d, p
\* and inv, which are never written.
C17_ConcurrentSafe ==
    /\ \A g \in Goroutines :
           frame[g].pc = "done" => frame[g].ret = RunAlone(frame[g].fn, frame[g].arg)
    /\ \A g, h \in InFlight :
           g # h =>
               \A a \in frame[g].acc, b \in frame[h].acc :
                   a.loc = b.loc => (a.mode = "r" /\ b.mode = "r" /\ a.loc \in Tables)
    /\ \A g \in InFlight :
           \A a \in frame[g].acc : a.loc \in Tables => a.mode = "r"

\* AppendChecksumString("12") has returned in one goroutine while another
\* call is inside its range loop and has read the tables
C17_Witness ==
    \E g, h \in Goroutines :
        /\ g # h
        /\ frame[g].pc = "range" /\ frame[g].i > 0
        /\ frame[h].pc = "done"
        /\ frame[h].fn = "AppendChecksumString"
        /\ frame[h].ret = Pair(<<49, 50, 49>>, NoErr)
        /\ [loc |-> TableLoc("p"), mode |-> "r"] \in frame[g].acc

\* the numeric value Unicode gives a decimal digit character (ASCII,
\* ARABIC-INDIC and DEVANAGARI digits)
NumericValue(char) ==
    IF char \in 48 .. 57 THEN char - 48
    ELSE IF char \in 1632 .. 1641 THEN char - 1632
    ELSE char - 2406

\* C21: text digit conversion is value-preserving. For every string that
\* stringToDigits accepts, the output has one element per character, in the
\* original order, and element i is the numeric value of character i, for every
\* character unicode.IsDigit accepts and not only for '0'..'9'.
C21_ValuePreserving ==
    (op = "ConvertToDigits" /\ input.kind = "string" /\ ret.err = NoErr) =>
        /\ ret.val.nil = FALSE
        /\ Len(ret.val.elems) = Len(input.v)
        /\ \A i \in 1 .. Len(input.v) : ret.val.elems[i] = NumericValue(input.v[i])

RECURSIVE FoldInRange(_, _, _, _)
\* the range loop over reversed, from iteration i in state c with the
\* permutation row (i + off) % 8: c is in 0..9 before and after every step and
\* every index into p and d is inside the table
FoldInRange(reversed, i, c, off) ==
    /\ c \in 0 .. 9
    /\ c + 1 \in DOMAIN d
    /\ \/ i = Len(reversed)
       \/ /\ i + 1 \in DOMAIN reversed
          /\ ((i + off) % 8) + 1 \in DOMAIN p
          /\ reversed[i + 1] + 1 \in DOMAIN p[((i + off) % 8) + 1]
          /\ pAt((i + off) % 8, reversed[i + 1]) + 1 \in DOMAIN d[c + 1]
          /\ FoldInRange(reversed, i + 1,
                         dAt(c, pAt((i + off) % 8, reversed[i + 1])), off)

\* the errors the functions return for their input
InputErrors ==
    {ErrNonDigit, ErrInvalidDigit, ErrEmpty, ErrAadhaarLength, ErrAadhaarDigits,
     ErrUnsupported}

\* C22: totality and bounded state. For every input of every public
\* operation the running state c starts at 0 and stays in 0..9 after each fold
\* step, every index into d, p and inv and every slice index (digits[len-1] of
\* ValidateAadhaar included) is in range, and the only failures are the
\* returned input errors.
C22_TotalAndBounded ==
    /\ LET r == ConvertToDigits(input)
       IN  r.err = NoErr =>
               /\ FoldInRange(reverseDigits(r.val.elems), 0, 0, 1)
               /\ FoldInRange(reverseDigits(r.val.elems), 0, 0, 0)
               /\ calculateLoop(reverseDigits(r.val.elems), 0, 0) + 1 \in DOMAIN inv
               /\ (input.kind = "string" /\ ByteLen(input.v) = 12) =>
                      Len(r.val.elems) \in DOMAIN r.val.elems
    /\ op \in {"GenerateFromString", "GenerateSlice", "Generate", "ValidateString",
               "ValidateSlice", "Validate", "ValidateAadhaar",
               "AppendChecksumString", "AppendChecksumSlice", "AppendChecksum",
               "ConvertToDigits", "InvertArray", "GenerateString"} =>
           ret.err \in InputErrors \cup {NoErr}
    /\ op \in {"GenerateInt", "GenerateInt64"} => ret \in 0 .. 9
    /\ op \in {"ValidateInt", "ValidateInt64"} => ret \in BOOLEAN

\* ValidateAadhaar has read digits[len(digits)-1] of a 12-byte string of
\* digits and returned without error
C22_Witness ==
    /\ op = "ValidateAadhaar"
    /\ ByteLen(input.v) = 12
    /\ ret.err = NoErr

\* the same value and the same error / no-error outcome; of a []int the
\* elements are compared, so that nil and an empty slice count as the same
SameOutcome(cur, orig) ==
    /\ (cur.err = NoErr) <=> (orig.err = NoErr)
    /\ cur.val = orig.val

SameSliceOutcome(cur, orig) ==
    /\ (cur.err = NoErr) <=> (orig.err = NoErr)
    /\ cur.val.elems = orig.val.elems

Reversed(D) == [k \in 1 .. Len(D) |-> D[Len(D) + 1 - k]]

RECURSIVE StateAfter(_, _, _)
\* the state after k steps of the reference fold over R with row offset off:
\* c = 0 before any step, then c = d[c][p[(i + off) mod 8][R[i]]] for step i
StateAfter(R, k, off) ==
    IF k = 0 THEN 0
    ELSE d[StateAfter(R, k - 1, off) + 1][p[((k - 1 + off) % 8) + 1][R[k] + 1] + 1]

\* C24: the kernel fold matches the reference definition. For every digit
\* sequence D of length L with R = reverse(D), calculateChecksum(D) is inv[c]
\* for the state c after L steps with row (i+1) mod 8, and validateChecksum(D),
\* L >= 1, is (c = 0) for the state c after L steps with row i mod 8.
C24_KernelFold ==
    /\ (op = "GenerateFromString" /\ IsAsciiDigitString(input.v)) =>
           LET D == DigitsOfText(input.v)
           IN  ret = Pair(inv[StateAfter(Reversed(D), Len(D), 1) + 1], NoErr)
    /\ (op = "ValidateString" /\ IsAsciiDigitString(input.v) /\ Len(input.v) >= 1) =>
           LET D == DigitsOfText(input.v)
           IN  ret = Pair(StateAfter(Reversed(D), Len(D), 0) = 0, NoErr)
    /\ (op = "GenerateSlice" /\ ~HasOutOfRange(input.v)) =>
           ret = Pair(inv[StateAfter(Reversed(input.v), Len(input.v), 1) + 1], NoErr)
    /\ (op = "ValidateSlice" /\ ~HasOutOfRange(input.v) /\ Len(input.v) >= 1) =>
           ret = Pair(StateAfter(Reversed(input.v), Len(input.v), 0) = 0, NoErr)

\* a ten-digit text went through more than one period of the permutation rows
C24_Witness ==
    /\ op = "GenerateFromString"
    /\ input.v = Text(<<8, 4, 7, 3, 6, 4, 3, 0, 9, 5>>)
    /\ ret = Pair(inv[StateAfter(<<5, 9, 0, 3, 4, 6, 3, 7, 4, 8>>, 10, 1) + 1], NoErr)
    /\ ret.val = 0

\* C25: the caller's data is left unchanged. GenerateSlice, ValidateSlice,
\* AppendChecksumSlice, ConvertToDigits and InvertArray never modify the []int
\* passed in, on success and on error alike, and the slice ConvertToDigits and
\* InvertArray return does not share storage with the input.
C25_CallerUnchanged ==
    (input.kind = "slice" /\ op # "none") =>
        /\ heap[CallerLoc] = input.v
        /\ (op \in {"ConvertToDigits", "InvertArray"} /\ ret.err = NoErr) =>
               ret.val.ptr # CallerLoc

\* InvertArray returned the reversal of [3, 7] in an array of its own and the
\* caller's array still holds [3, 7]
C25_Witness ==
    /\ op = "InvertArray"
    /\ input.kind = "slice"
    /\ input.v = <<3, 7>>
    /\ ret.err = NoErr
    /\ ReadSlice(heap, ret.val) = <<7, 3>>
    /\ heap[CallerLoc] = <<3, 7>>

\* C26: the tables are never mutated. After any public operation, on any
\* input and on success or error, every entry of d, p and inv in memory is what
\* it was at initialization.
C26_TablesUnchanged ==
    \A l \in DOMAIN TableArrays : heap[l] = TableArrays[l]

\* Generate has folded over the tables for a text of ten digits and they hold
\* their initial contents
C26_Witness ==
    /\ op = "Generate"
    /\ input.kind = "string"
    /\ input.v = Text(<<8, 4, 7, 3, 6, 4, 3, 0, 9, 5>>)
    /\ ret = Pair(0, NoErr)
    /\ \A l \in DOMAIN TableArrays : heap[l] = TableArrays[l]

\* what the functions with memory return is what the functions on values return
MemAgrees ==
    /\ op = "Generate" => ret = Generate(input)
    /\ op = "Validate" => ret = Validate(input)
    /\ op = "AppendChecksumSlice" => ret = AppendChecksumSlice(input.v)
    /\ (op = "ConvertToDigits" /\ ret.err = NoErr) =>
           ReadSlice(heap, ret.val) = ConvertToDigits(input).val.elems
    /\ (op = "ConvertToDigits" /\ ret.err # NoErr) =>
           ret.err = ConvertToDigits(input).err
    /\ (op = "InvertArray" /\ ret.err = NoErr) =>
           ReadSlice(heap, ret.val) = InvertArray(input).val.elems

\* C27: InvertArray is the reversal of ConvertToDigits. For every supported
\* input x, InvertArray(x) fails exactly when ConvertToDigits(x) fails, and
\* otherwise returns a sequence of the same length whose element i is element
\* len-1-i of ConvertToDigits(x); the empty string gives an empty sequence and
\* reversing the result again gives back ConvertToDigits(x).
C27_InvertIsReversal ==
    (op = "InvertArray" /\ input.kind \in SupportedKinds) =>
        LET c == ConvertToDigits(input)
        IN  /\ (ret.err # NoErr) <=> (c.err # NoErr)
            /\ ret.err = NoErr =>
                   /\ Len(ret.val.elems) = Len(c.val.elems)
                   /\ \A i \in 1 .. Len(c.val.elems) :
                          ret.val.elems[i] = c.val.elems[Len(c.val.elems) + 1 - i]
                   /\ Reversed(ret.val.elems) = c.val.elems
            /\ (input.kind = "string" /\ input.v = <<>>) =>
                   ret = Pair(Slice(<<>>), NoErr)

\* InvertArray("12345") returned [5, 4, 3, 2, 1]
C27_Witness ==
    /\ op = "InvertArray"
    /\ input.kind = "string"
    /\ input.v = Text(<<1, 2, 3, 4, 5>>)
    /\ ret = Pair(Slice(<<5, 4, 3, 2, 1>>), NoErr)

\* C28: sign handling in integer append. For every negative int n,
\* AppendChecksumInt(n) and AppendChecksumInt64(n) return the signed decimal
\* text of n, minus sign included, followed by the check digit computed from
\* the digits of |n|; the result holds a character that is not a digit and
\* ValidateString of it returns the malformed-input error.
C28_SignKept ==
    (op \in {"AppendChecksumInt", "AppendChecksumInt64"} /\ input.v < 0) =>
        LET magnitude == ItoaNat(0 - input.v)
        IN  /\ ret = (<<45>> \o magnitude)
                         \o <<DigitChar(GenerateFromString(magnitude).val)>>
            /\ HasNonDigit(ret)
            /\ ValidateString(ret) = Pair(FALSE, ErrNonDigit)

\* row is a permutation of 0..9
IsPermutation(row) == Len(row) = 10 /\ {row[k] : k \in 1 .. 10} = 0 .. 9

\* C29: the multiplication and inverse tables form a group with identity 0.
\* For all a, b, c in 0..9, d[0][a] = a = d[a][0], d[d[a][b]][c] =
\* d[a][d[b][c]], every row and every column of d is a permutation of 0..9, and
\* d[a][inv[a]] = 0 = d[inv[a]][a].
C29_GroupTables ==
    /\ DOMAIN d = 1 .. 10 /\ DOMAIN inv = 1 .. 10
    /\ op = "d" =>
           LET a == input.v[1] - 1
           IN  /\ ret.left = ret.right
               /\ dAt(0, a) = a /\ dAt(a, 0) = a
               /\ IsPermutation(d[a + 1])
               /\ IsPermutation([k \in 1 .. 10 |-> dAt(k - 1, a)])
               /\ ret.inverse \in 0 .. 9
               /\ ret.aInv = 0 /\ ret.invA = 0

\* (5 * 1) * 2 and 5 * (1 * 2) are both 7 (a reflection and two rotations),
\* and the reflection 5 is its own inverse
C29_Witness ==
    /\ op = "d"
    /\ input.v = <<6, 2, 3>>
    /\ ret.left = 7 /\ ret.right = 7
    /\ ret.inverse = 5
    /\ ret.aInv = 0

\* C30: the permutation table is generated by its base row. Row 0 of p is the
\* identity, every row of p is a permutation of 0..9, and for every i in 0..7
\* and x in 0..9, p[(i+1) mod 8][x] = p[i][p[1][x]]: the rows are the
\* successive powers of row 1 and repeat with period 8.
C30_PermutationPowers ==
    /\ DOMAIN p = 1 .. 8
    /\ op = "p" =>
           LET i == input.v[1] - 1
               x == input.v[2] - 1
           IN  /\ pAt(0, x) = x
               /\ IsPermutation(p[i + 1])
               /\ ret.next = ret.composed

\* from row 7 the next row is row 0 again: p[7][p[1][3]] = p[0][3] = 3
C30_Witness ==
    /\ op = "p"
    /\ input.v[1] = 8 /\ input.v[2] = 4
    /\ ret.next = 3 /\ ret.composed = 3

====
